---- MODULE Spec2Model ----
(***************************************************************************)
(* Model of the selectable ROIs of SelectionRoi.py and of the scene and    *)
(* viewer of image_viewer6.py that hold them.                              *)
(*                                                                         *)
(* Lengths are exact rationals <<n, d>> (d > 0, lowest terms): the code    *)
(* divides base widths by the scene scale and halves bounding rectangles.  *)
(* A rectangle is <<x, y, w, h>> as QRectF stores it; a path is the        *)
(* sequence of its elements <<x, y>>.                                      *)
(***************************************************************************)
EXTENDS Integers, Sequences, FiniteSets, TLC

VARIABLES
    rois,       \* ImageScene.rois: the ROIs in insertion order
    scale,      \* ImageViewer.scale
    selected,   \* the scene's selectedItems()
    rescaled,   \* per ROI: scene_scale of the latest set_to_scale call made on it
                \* from outside the ROI (1 before any); a history variable
    last,       \* the call that produced the state; a history variable
    nops,       \* calls made so far, other than add_roi
    sheet       \* the table viewer's SheetView: rows, row types, selection

vars == <<rois, scale, selected, rescaled, last, nops, sheet>>

---------------------------------------------------------------------------
(* Bounds of the exploration.                                              *)

\* ROIs added to the scene.
MaxRois == 2

\* Calls other than add_roi in a run of Spec, RoiSpec and SceneSpec.
MaxOps == 2

\* adjust_roi calls in a run of GeomSpec.
MaxDrags == 3

\* Zoom steps away from scale 1.
MaxZoom == 1

\* Items selected at once, and the anchors of an ROI that get selected (its
\* first MaxPick).
MaxSel == 2

MaxPick == 1

---------------------------------------------------------------------------
(* Exact rational arithmetic.                                              *)

Abs(a) == IF a < 0 THEN -a ELSE a

RECURSIVE GCD(_, _)
GCD(a, b) == IF b = 0 THEN a ELSE GCD(b, a % b)

Rat(n, d) ==
    LET g == GCD(Abs(n), Abs(d))
        s == IF d < 0 THEN -1 ELSE 1
    IN  <<(s * n) \div g, (s * d) \div g>>

RInt(i) == <<i, 1>>

RAdd(a, b) == Rat(a[1] * b[2] + b[1] * a[2], a[2] * b[2])

RSub(a, b) == Rat(a[1] * b[2] - b[1] * a[2], a[2] * b[2])

RMul(a, b) == Rat(a[1] * b[1], a[2] * b[2])

RDiv(a, b) == Rat(a[1] * b[2], a[2] * b[1])

RHalf(a) == Rat(a[1], 2 * a[2])

RECURSIVE Pow(_, _)
Pow(b, e) == IF e = 0 THEN 1 ELSE b * Pow(b, e - 1)

---------------------------------------------------------------------------
(* Inputs.                                                                 *)

\* AnchorPosition members used by the ROIs.
BoxAnchorTypes ==
    <<"LEFT", "RIGHT", "TOP", "TOP_LEFT", "TOP_RIGHT",
      "BOTTOM", "BOTTOM_LEFT", "BOTTOM_RIGHT">>

\* event.pos() of a mouse move on an anchor, as handed to adjust_roi.
Mouse == { <<5, 5>>, <<-5, -5>>, <<2, -3>> }

\* RectangleRoi(x0, y0, width, height): the viewer's first, and a small one
\* given with a negative height (the constructor does not normalise).
RectInputs == { <<50, 10, 50, 40>>, <<10, 10, 4, -2>> }

\* EllipseRoi(x0, y0, width, height): the viewer's first.
EllipseInputs == { <<75, 20, 60, 20>> }

PointInputs == { <<120, 50, 6>> }

\* PathRoi(x, y, is_closed, is_anchored).
PathInputs ==
    { [x |-> <<10, 60>>, y |-> <<10, 50>>, is_closed |-> FALSE, is_anchored |-> TRUE],
      [x |-> <<60, 65, 75>>, y |-> <<60, 76, 50>>, is_closed |-> TRUE, is_anchored |-> TRUE],
      [x |-> <<60, 65, 75, 80>>, y |-> <<60, 76, 50>>, is_closed |-> FALSE, is_anchored |-> TRUE],
      [x |-> <<60, 65, 60>>, y |-> <<60, 76, 60>>, is_closed |-> TRUE, is_anchored |-> TRUE],
      [x |-> <<4, 4>>, y |-> <<46, 46>>, is_closed |-> FALSE, is_anchored |-> FALSE] }

\* set_properties(color_rgb, line_width, anchor_size).
Styles ==
    { [color_rgb |-> <<255, 0, 0>>, line_width |-> 6, anchor_size |-> 4],
      [color_rgb |-> <<0, 0, 0>>, line_width |-> 1, anchor_size |-> 2] }

\* scene_scale values handed to set_to_scale directly.
Scales == { <<1, 2>>, <<1, 1>>, <<2, 1>>, <<10, 1>> }

---------------------------------------------------------------------------
(* QRectF, as the code uses it on <<x, y, w, h>>.                          *)

left(r) == r[1]

top(r) == r[2]

right(r) == r[1] + r[3]

bottom(r) == r[2] + r[4]

setLeft(r, pos) == <<pos, r[2], r[3] - (pos - r[1]), r[4]>>

\* Variant of setRight: the rect is moved to the new right, keeping its width.
setRight_move(r, pos) == <<pos - r[3], r[2], r[3], r[4]>>

setRight(r, pos) == <<r[1], r[2], pos - r[1], r[4]>>

\* Variant of setTop: the rect is moved to the new top, keeping its height.
setTop_move(r, pos) == <<r[1], pos, r[3], r[4]>>

setTop(r, pos) == <<r[1], pos, r[3], r[4] - (pos - r[2])>>

setBottom(r, pos) == <<r[1], r[2], r[3], pos - r[2]>>

\* Variant of normalized: a negative width or height becomes zero.
normalized_zero(r) ==
    <<r[1], r[2], IF r[3] < 0 THEN 0 ELSE r[3], IF r[4] < 0 THEN 0 ELSE r[4]>>

\* Variant of normalized: the rect is handed back as it is.
normalized_none(r) == r

normalized(r) ==
    LET a == IF r[3] < 0 THEN <<r[1] + r[3], r[2], -r[3], r[4]>> ELSE r
    IN  IF a[4] < 0 THEN <<a[1], a[2] + a[4], a[3], -a[4]>> ELSE a

\* boundingRect() of a rectangle or ellipse item: the rect grown by half the
\* pen width on every side, as a rational <<x, y, w, h>>.
boundingRect(rect, pen_width) ==
    LET hpw == RHalf(pen_width)
    IN  << RSub(RInt(rect[1]), hpw), RSub(RInt(rect[2]), hpw),
           RAdd(RInt(rect[3]), pen_width), RAdd(RInt(rect[4]), pen_width) >>

---------------------------------------------------------------------------
(* QPainterPath, as the code uses it: a sequence of elements <<x, y>>.     *)

\* lineTo(x, y): nothing is appended when the point equals the last element.
lineTo(path, p) == IF p = path[Len(path)] THEN path ELSE Append(path, p)

\* closeSubpath(): nothing for a path of one element; otherwise an element
\* equal to the first is appended unless the last one already equals it.
closeSubpath(path) ==
    IF Len(path) = 1 THEN path
    ELSE IF path[1] # path[Len(path)] THEN Append(path, path[1])
    ELSE path

setElementPositionAt(path, i, x, y) == [path EXCEPT ![i] = <<x, y>>]

---------------------------------------------------------------------------
(* Anchor.                                                                 *)

\* Anchor.__init__(anchor_position, parent_roi, anchor_size = 4): a square of
\* anchor_size at (0, 0) with the default pen, fully opaque.
Anchor(anchor_position) ==
    [ pos       |-> <<RInt(0), RInt(0)>>,
      pen_width |-> RInt(1),
      position  |-> anchor_position,
      width     |-> RInt(4),
      height    |-> RInt(4),
      pen_color |-> <<0, 0, 0>>,
      opacity   |-> 1 ]

\* point.boundingRect().width() / 2 of an anchor.
AnchorOff(a) == RHalf(RAdd(a.width, a.pen_width))

---------------------------------------------------------------------------
(* SelectionRoi and its concrete classes. An ROI is a record; the methods  *)
(* are operators from an ROI to the ROI they leave behind.                 *)

Min(a, b) == IF a < b THEN a ELSE b

\* get_anchor_types() of PointRoi, PathRoi and ShapeRoi (RectangleRoi and
\* EllipseRoi both inherit ShapeRoi's).
get_anchor_types(kind, n_points, is_anchored) ==
    CASE kind = "point" -> <<>>
      [] kind = "path" ->
            <<"START">> \o
            (IF is_anchored
                THEN [i \in 1..(IF n_points > 2 THEN n_points - 2 ELSE 0) |-> "MIDDLE"]
                     \o <<"END">>
                ELSE <<>>)
      [] OTHER -> BoxAnchorTypes

\* Variant of show_anchors: hiding drops the anchors from the list.
show_anchors_remove(roi, do_show) ==
    IF do_show THEN roi ELSE [roi EXCEPT !.anchors = <<>>]

\* show_anchors(do_show): opacity float(do_show) on every anchor.
show_anchors(roi, do_show) ==
    [roi EXCEPT !.anchors =
        [i \in 1..Len(roi.anchors) |->
            [roi.anchors[i] EXCEPT !.opacity = IF do_show THEN 1 ELSE 0]]]

hide_anchors(roi) == show_anchors(roi, FALSE)

\* SelectionRoi.__init__, for a concrete class whose geometry is still unset.
SelectionRoiInit(kind, n_points, is_closed, is_anchored) ==
    hide_anchors(
        [ is_closed        |-> is_closed,
          is_anchored      |-> is_anchored,
          color_rgb        |-> <<0, 0, 0>>,
          pos              |-> <<0, 0>>,
          rect             |-> <<0, 0, 0, 0>>,
          pen_width        |-> RInt(1),
          path             |-> <<>>,
          pen_color        |-> <<0, 0, 0>>,
          kind             |-> kind,
          n_points         |-> n_points,
          anchors          |-> [i \in 1..Len(get_anchor_types(kind, n_points, is_anchored)) |->
                                   Anchor(get_anchor_types(kind, n_points, is_anchored)[i])],
          base_line_width  |-> 1,
          base_anchor_size |-> 4 ])

\* The edges and the centre of a bounding rectangle <<x, y, w, h>>:
\* left(), top(), right(), bottom(), left() + width() / 2, top() + height() / 2.
Edges(bounds) ==
    [ left   |-> bounds[1],
      top    |-> bounds[2],
      right  |-> RAdd(bounds[1], bounds[3]),
      bottom |-> RAdd(bounds[2], bounds[4]),
      cx     |-> RAdd(bounds[1], RHalf(bounds[3])),
      cy     |-> RAdd(bounds[2], RHalf(bounds[4])) ]

\* ShapeRoi.adjust_anchors: the position of one anchor from the bounding
\* rectangle of the ROI (its edges e) and the anchor's own bounding rectangle.
ShapeAnchorPos(e, a) ==
    LET off == AnchorOff(a)
    IN  CASE a.position = "LEFT"         -> <<RSub(e.left, off), RSub(e.cy, off)>>
          [] a.position = "RIGHT"        -> <<RSub(e.right, off), RSub(e.cy, off)>>
          [] a.position = "TOP"          -> <<RSub(e.cx, off), RSub(e.top, off)>>
          [] a.position = "TOP_LEFT"     -> <<RSub(e.left, off), RSub(e.top, off)>>
          [] a.position = "TOP_RIGHT"    -> <<RSub(e.right, off), RSub(e.top, off)>>
          [] a.position = "BOTTOM"       -> <<RSub(e.cx, off), RSub(e.bottom, off)>>
          [] a.position = "BOTTOM_LEFT"  -> <<RSub(e.left, off), RSub(e.bottom, off)>>
          [] a.position = "BOTTOM_RIGHT" -> <<RSub(e.right, off), RSub(e.bottom, off)>>
          [] OTHER -> a.pos

\* PathRoi.adjust_anchors: anchor i sits on path element i.
PathAnchorPos(path, i, a) ==
    LET off == AnchorOff(a)
    IN  <<RSub(RInt(path[i][1]), off), RSub(RInt(path[i][2]), off)>>

\* adjust_anchors() of the ROI's class.
adjust_anchors(roi) ==
    CASE roi.kind = "point" -> roi
      [] roi.kind = "path" ->
            [roi EXCEPT !.anchors =
                [i \in 1..Len(roi.anchors) |->
                    [roi.anchors[i] EXCEPT !.pos = PathAnchorPos(roi.path, i, roi.anchors[i])]]]
      [] OTHER ->
            LET e == Edges(boundingRect(roi.rect, roi.pen_width))
            IN  [roi EXCEPT !.anchors =
                    [i \in 1..Len(roi.anchors) |->
                        [roi.anchors[i] EXCEPT !.pos = ShapeAnchorPos(e, roi.anchors[i])]]]

\* Variant of set_to_scale: the trailing adjust_anchors() is left out.
set_to_scale_stale(roi, scene_scale) ==
    LET pw == RDiv(RInt(roi.base_line_width), scene_scale)
        sz == RDiv(RInt(roi.base_anchor_size), scene_scale)
    IN  [roi EXCEPT
            !.pen_width = pw,
            !.pen_color = roi.color_rgb,
            !.anchors = [i \in 1..Len(roi.anchors) |->
                [roi.anchors[i] EXCEPT
                    !.pen_width = pw,
                    !.pen_color = roi.color_rgb,
                    !.width = sz,
                    !.height = sz]]]

\* Variant of set_to_scale: the base values are multiplied by the scale.
set_to_scale_times(roi, scene_scale) ==
    LET pw == RMul(RInt(roi.base_line_width), scene_scale)
        sz == RMul(RInt(roi.base_anchor_size), scene_scale)
    IN  adjust_anchors(
            [roi EXCEPT
                !.pen_width = pw,
                !.pen_color = roi.color_rgb,
                !.anchors = [i \in 1..Len(roi.anchors) |->
                    [roi.anchors[i] EXCEPT
                        !.pen_width = pw,
                        !.pen_color = roi.color_rgb,
                        !.width = sz,
                        !.height = sz]]])

\* set_to_scale(scene_scale): pen and anchor sizes for the scale, then
\* adjust_anchors().
set_to_scale(roi, scene_scale) ==
    LET pw == RDiv(RInt(roi.base_line_width), scene_scale)
        sz == RDiv(RInt(roi.base_anchor_size), scene_scale)
    IN  adjust_anchors(
            [roi EXCEPT
                !.pen_width = pw,
                !.pen_color = roi.color_rgb,
                !.anchors = [i \in 1..Len(roi.anchors) |->
                    [roi.anchors[i] EXCEPT
                        !.pen_width = pw,
                        !.pen_color = roi.color_rgb,
                        !.width = sz,
                        !.height = sz]]])

\* set_properties(color_rgb, line_width, anchor_size): stores the base values
\* and calls set_to_scale() with its default scene_scale = 1.0.
set_properties(roi, color_rgb, line_width, anchor_size) ==
    set_to_scale(
        [roi EXCEPT
            !.base_line_width = line_width,
            !.base_anchor_size = anchor_size,
            !.color_rgb = color_rgb],
        RInt(1))

\* ShapeRoi.adjust_roi(point, mouse): the edge(s) named by the anchor's
\* position move by the mouse coordinates, the rect is normalised and the
\* anchors are placed again.
ShapeAdjustRect(rect, position, mouse) ==
    LET mx == mouse[1]
        my == mouse[2]
        r  == CASE position = "LEFT"  -> setLeft(rect, left(rect) + mx)
                [] position = "RIGHT" -> setRight(rect, right(rect) + mx)
                [] position = "TOP"   -> setTop(rect, top(rect) + my)
                [] position = "TOP_LEFT" ->
                      LET a == setLeft(rect, left(rect) + mx) IN setTop(a, top(a) + my)
                [] position = "TOP_RIGHT" ->
                      LET a == setRight(rect, right(rect) + mx) IN setTop(a, top(a) + my)
                [] position = "BOTTOM" -> setBottom(rect, bottom(rect) + my)
                [] position = "BOTTOM_LEFT" ->
                      LET a == setLeft(rect, left(rect) + mx) IN setBottom(a, bottom(a) + my)
                [] position = "BOTTOM_RIGHT" ->
                      LET a == setRight(rect, right(rect) + mx) IN setBottom(a, bottom(a) + my)
                [] OTHER -> rect
    IN  normalized(r)

\* Variant of PathAdjustPath: the element is put at the mouse coordinates
\* instead of being moved by them.
PathAdjustPath_abs(path, i, is_closed, mouse) ==
    LET p1 == setElementPositionAt(path, i, mouse[1], mouse[2])
    IN  IF i = 1 /\ is_closed
            THEN setElementPositionAt(p1, Len(p1), mouse[1], mouse[2])
            ELSE p1

\* PathRoi.adjust_roi(point, mouse) on an anchored path, point being the
\* ROI's i-th anchor (1-based): element i moves, and with it the last element
\* when the path is closed and the anchor is the first.
PathAdjustPath(path, i, is_closed, mouse) ==
    LET x  == path[i][1] + mouse[1]
        y  == path[i][2] + mouse[2]
        p1 == setElementPositionAt(path, i, x, y)
    IN  IF i = 1 /\ is_closed
            THEN setElementPositionAt(p1, Len(p1), x, y)
            ELSE p1

\* adjust_roi(point, mouse) of the ROI's class, for its own i-th anchor.
adjust_roi(roi, i, mouse) ==
    CASE roi.kind = "point" -> roi
      [] roi.kind = "path" ->
            IF ~roi.is_anchored
                THEN [roi EXCEPT !.pos = <<roi.pos[1] + mouse[1], roi.pos[2] + mouse[2]>>]
                ELSE adjust_anchors(
                        [roi EXCEPT !.path = PathAdjustPath(roi.path, i, roi.is_closed, mouse)])
      [] OTHER ->
            adjust_anchors(
                [roi EXCEPT !.rect = ShapeAdjustRect(roi.rect, roi.anchors[i].position, mouse)])

\* PointRoi(x0, y0, size).
PointRoi(x0, y0, size) ==
    [SelectionRoiInit("point", 0, FALSE, FALSE) EXCEPT
        !.rect = <<x0, y0, size, size>>,
        !.pos = <<x0, y0>>]

\* The path built by PathRoi.__init__: the first point, a lineTo for each of
\* the next n_points - 1, and closeSubpath() when is_closed.
RECURSIVE PathLines(_, _, _, _, _)
PathLines(path, x, y, i, n_points) ==
    IF i > n_points THEN path
    ELSE PathLines(lineTo(path, <<x[i], y[i]>>), x, y, i + 1, n_points)

\* PathRoi.__init__ up to setPath(path): the options, the anchors of
\* SelectionRoi.__init__ and the path.
PathRoiSetPath(x, y, is_closed, is_anchored) ==
    LET n_points == Min(Len(x), Len(y))
        open     == PathLines(<< <<x[1], y[1]>> >>, x, y, 2, n_points)
    IN  [SelectionRoiInit("path", n_points, is_closed, is_anchored) EXCEPT
            !.path = IF is_closed THEN closeSubpath(open) ELSE open]

\* PathRoi(x, y, is_closed, is_anchored), when every anchor has a path element
\* of its index.
PathRoi(x, y, is_closed, is_anchored) ==
    adjust_anchors(PathRoiSetPath(x, y, is_closed, is_anchored))

\* ShapeRoi.__init__ through RectangleRoi(x0, y0, width, height) or
\* EllipseRoi(x0, y0, width, height).
ShapeRoi(kind, x0, y0, width, height) ==
    adjust_anchors(
        [SelectionRoiInit(kind, 0, FALSE, FALSE) EXCEPT
            !.rect = <<x0, y0, width, height>>,
            !.pos = <<x0, y0>>])

RectangleRoi(x0, y0, width, height) == ShapeRoi("rectangle", x0, y0, width, height)

EllipseRoi(x0, y0, width, height) == ShapeRoi("ellipse", x0, y0, width, height)

---------------------------------------------------------------------------
(* Scene items. An item is the ROI at index roi of the scene's list        *)
(* (anchor = 0) or that ROI's anchor at index anchor.                      *)

Item(r, i) == [roi |-> r, anchor |-> i]

ItemsOf(rs) ==
    { Item(r, 0) : r \in 1..Len(rs) } \cup
    UNION { { Item(r, i) : i \in 1..Len(rs[r].anchors) } : r \in 1..Len(rs) }

\* Variant of has_item: an anchor is recognised by its index alone.
has_item_index(rs, r, item) ==
    \/ item = Item(r, 0)
    \/ \E i \in 1..Len(rs[r].anchors) : item.anchor = i

\* has_item(item) of the ROI at index r: the ROI itself or one of its anchors.
has_item(rs, r, item) ==
    \/ item = Item(r, 0)
    \/ \E i \in 1..Len(rs[r].anchors) : item = Item(r, i)

\* Variant of change_selected_item: no ROI hides its anchors first.
change_selected_item_keep(rs, selected_items) ==
    [r \in 1..Len(rs) |->
        IF \E y \in selected_items : has_item(rs, r, y)
            THEN show_anchors(rs[r], TRUE)
            ELSE rs[r]]

\* change_selected_item(): every ROI hides its anchors, then shows them when
\* one of the selected items is the ROI or one of its anchors.
change_selected_item(rs, selected_items) ==
    [r \in 1..Len(rs) |->
        IF \E y \in selected_items : has_item(rs, r, y)
            THEN show_anchors(hide_anchors(rs[r]), TRUE)
            ELSE hide_anchors(rs[r])]

\* adjust_roi_scale(scale): set_to_scale(scale) on every ROI of the scene.
adjust_roi_scale(rs, s) == [r \in 1..Len(rs) |-> set_to_scale(rs[r], s)]

---------------------------------------------------------------------------
(* The table viewer's SheetView. Rows are counted from 0, as in the code;  *)
(* row_type_list is a sequence, so the type of row i is its element i + 1. *)
(* colors holds, per row, the RowType whose colour the row's cells have:   *)
(* "none" for a row without items, "default" for fresh items.              *)

RowType == {"DATA", "HEADER", "OTHER"}

\* SheetView(parent, n_col, n_row): n_row rows without items, every row OTHER.
SheetView(n_row) ==
    [rowCount |-> n_row,
     row_type_list |-> [i \in 1..n_row |-> "OTHER"],
     colors |-> [i \in 1..n_row |-> "none"],
     selection |-> {}]

\* Python's list.insert(index, x): a negative index counts from the end, and
\* an index outside the list is clamped to its ends.
ListInsert(list, index, x) ==
    LET n  == Len(list)
        k0 == IF index < 0 THEN index + n ELSE index
        k  == IF k0 < 0 THEN 0 ELSE IF k0 > n THEN n ELSE k0
    IN  SubSeq(list, 1, k) \o <<x>> \o SubSeq(list, k + 1, n)

\* Whether Python's list.pop(index) raises IndexError.
PopRaises(list, index) ==
    LET k == IF index < 0 THEN index + Len(list) ELSE index
    IN  k < 0 \/ k >= Len(list)

\* Python's list.pop(index), when it does not raise.
ListPop(list, index) ==
    LET k == IF index < 0 THEN index + Len(list) ELSE index
    IN  SubSeq(list, 1, k) \o SubSeq(list, k + 2, Len(list))

\* get_selected_range(): the first and the last selected row, or -1, -1.
get_selected_range(sh) ==
    IF sh.selection = {} THEN <<-1, -1>>
    ELSE <<CHOOSE a \in sh.selection : \A b \in sh.selection : a <= b,
           CHOOSE a \in sh.selection : \A b \in sh.selection : a >= b>>

\* The type set_row_colors gives row i: DATA unless i is an index of
\* row_type_list.
row_type(sh, i) ==
    IF i < Len(sh.row_type_list) THEN sh.row_type_list[i + 1] ELSE "DATA"

\* set_row_colors(): every item takes the colour of its row's type.
set_row_colors(sh) ==
    [sh EXCEPT !.colors =
        [i \in 1..sh.rowCount |->
            IF sh.colors[i] = "none" THEN "none" ELSE row_type(sh, i - 1)]]

\* QTableWidget.insertRow(row): nothing for a row outside 0..rowCount; the
\* selected rows at or below the new row move down with their rows.
insertRow(sh, row) ==
    IF row < 0 \/ row > sh.rowCount THEN sh
    ELSE [sh EXCEPT !.rowCount = @ + 1,
                    !.colors = ListInsert(@, row, "none"),
                    !.selection = { r \in @ : r < row } \cup
                                  { r + 1 : r \in { q \in @ : q >= row } }]

\* QTableWidget.removeRow(row): nothing for a row outside 0..rowCount-1; the
\* row leaves the selection and the selected rows below it move up.
removeRow(sh, row) ==
    IF row < 0 \/ row >= sh.rowCount THEN sh
    ELSE [sh EXCEPT !.rowCount = @ - 1,
                    !.colors = ListPop(@, row),
                    !.selection = { r \in @ : r < row } \cup
                                  { r - 1 : r \in { q \in @ : q > row } }]

\* setItem(row, j, QTableWidgetItem("")) for every column j: nothing for a row
\* outside the table.
setItems(sh, row) ==
    IF row < 0 \/ row >= sh.rowCount THEN sh
    ELSE [sh EXCEPT !.colors[row + 1] = "default"]

\* set_row_data(rows) with n_row > 0 rows: the table takes n_row rows, every
\* cell a fresh item, and every row is OTHER.
set_row_data(sh, n_row) ==
    set_row_colors(
        [sh EXCEPT !.rowCount = n_row,
                   !.row_type_list = [i \in 1..n_row |-> "OTHER"],
                   !.colors = [i \in 1..n_row |-> "default"],
                   !.selection = { r \in @ : r < n_row }])

\* insert_segment(TableDimension.ROW).
insert_segment(sh) ==
    LET selection_row_start == get_selected_range(sh)[1]
        inserted == setItems(insertRow(sh, selection_row_start), selection_row_start)
    IN  set_row_colors(
            IF selection_row_start <= Len(sh.row_type_list)
                THEN [inserted EXCEPT !.row_type_list =
                                        ListInsert(@, selection_row_start, "OTHER")]
                ELSE inserted)

\* The loop of delete_segment(TableDimension.ROW), n rounds from the row
\* start: the sheet it ends with, and whether list.pop raised IndexError.
RECURSIVE delete_rows(_, _, _)
delete_rows(sh, start, n) ==
    IF n = 0 THEN [sheet |-> sh, raised |-> FALSE]
    ELSE LET removed == removeRow(sh, start)
         IN  IF start < Len(removed.row_type_list)
                THEN IF PopRaises(removed.row_type_list, start)
                        THEN [sheet |-> removed, raised |-> TRUE]
                        ELSE delete_rows(
                                [removed EXCEPT !.row_type_list = ListPop(@, start)],
                                start, n - 1)
                ELSE delete_rows(removed, start, n - 1)

\* delete_segment(TableDimension.ROW): set_row_colors runs unless the loop
\* raised.
delete_segment(sh) ==
    LET range == get_selected_range(sh)
        done  == delete_rows(sh, range[1], 1 + range[2] - range[1])
    IN  IF done.raised THEN done
        ELSE [sheet |-> set_row_colors(done.sheet), raised |-> FALSE]

\* set_selected_row_type(rtype).
set_selected_row_type(sh, rtype) ==
    LET range == get_selected_range(sh)
        selection_row_start == range[1]
        selection_row_end   == range[2]
        n == Len(sh.row_type_list)
    IN  IF selection_row_start < 0 \/ selection_row_end < 0 THEN sh
        ELSE set_row_colors(
            IF rtype = "DATA"
                THEN IF selection_row_start > n
                        THEN [sh EXCEPT !.row_type_list =
                                @ \o [i \in 1..(selection_row_start - n) |-> "OTHER"]]
                     ELSE IF selection_row_start < n
                        THEN [sh EXCEPT !.row_type_list = SubSeq(@, 1, selection_row_start)]
                     ELSE sh
                ELSE [sh EXCEPT !.row_type_list =
                        [i \in 1..n |->
                            IF i - 1 >= selection_row_start /\ i - 1 <= selection_row_end
                                THEN rtype ELSE @[i]]])

---------------------------------------------------------------------------
(* The scene and the viewer.                                               *)

NoPre == [pos |-> <<0, 0>>, rect |-> <<0, 0, 0, 0>>, path |-> <<>>]

Geometry(roi) == [pos |-> roi.pos, rect |-> roi.rect, path |-> roi.path]

Call(op, r, i, mouse, pre) ==
    [roi |-> r, mouse |-> mouse, anchor |-> i, op |-> op, pre |-> pre]

RECURSIVE SubsetsUpTo(_, _)
SubsetsUpTo(S, k) ==
    IF k = 0 THEN { {} }
    ELSE LET P == SubsetsUpTo(S, k - 1)
         IN  P \cup { p \cup {x} : p \in P, x \in S }

\* ImageScene.__init__ and the viewer's self.scale = 1.0.
Init ==
    /\ rois = <<>>
    /\ scale = RInt(1)
    /\ selected = {}
    /\ rescaled = <<>>
    /\ last = Call("init", 0, 0, <<0, 0>>, NoPre)
    /\ nops = 0
    /\ sheet = SheetView(1)

\* add_roi(roi).
add_roi(roi) ==
    /\ Len(rois) < MaxRois
    /\ rois' = Append(rois, roi)
    /\ rescaled' = Append(rescaled, RInt(1))
    /\ last' = Call("add_roi", Len(rois) + 1, 0, <<0, 0>>, NoPre)
    /\ UNCHANGED <<scale, selected, nops, sheet>>

AddPoint == \E in \in PointInputs : add_roi(PointRoi(in[1], in[2], in[3]))

AddPath == \E in \in PathInputs : add_roi(PathRoi(in.x, in.y, in.is_closed, in.is_anchored))

AddRectangle == \E in \in RectInputs : add_roi(RectangleRoi(in[1], in[2], in[3], in[4]))

AddEllipse == \E in \in EllipseInputs : add_roi(EllipseRoi(in[1], in[2], in[3], in[4]))

\* Anchor.mouseMoveEvent: the anchor's ROI adjusts itself to event.pos().
AdjustRoi ==
    \E r \in 1..Len(rois) : \E i \in 1..Len(rois[r].anchors) : \E mouse \in Mouse :
        /\ rois' = [rois EXCEPT ![r] = adjust_roi(rois[r], i, mouse)]
        /\ last' = Call("adjust_roi", r, i, mouse, Geometry(rois[r]))
        /\ nops' = nops + 1
        /\ UNCHANGED <<scale, selected, rescaled, sheet>>

\* roi.set_properties(color_rgb, line_width, anchor_size).
SetProperties ==
    \E r \in 1..Len(rois) : \E st \in Styles :
        /\ rois' = [rois EXCEPT ![r] =
                        set_properties(rois[r], st.color_rgb, st.line_width, st.anchor_size)]
        /\ last' = Call("set_properties", r, 0, <<0, 0>>, NoPre)
        /\ nops' = nops + 1
        /\ UNCHANGED <<scale, selected, rescaled, sheet>>

\* roi.set_to_scale(scene_scale).
SetToScale ==
    \E r \in 1..Len(rois) : \E s \in Scales :
        /\ rois' = [rois EXCEPT ![r] = set_to_scale(rois[r], s)]
        /\ rescaled' = [rescaled EXCEPT ![r] = s]
        /\ last' = Call("set_to_scale", r, 0, <<0, 0>>, NoPre)
        /\ nops' = nops + 1
        /\ UNCHANGED <<scale, selected, sheet>>

\* The scale after a key: * 1.2 for plus, / 1.2 for minus.
KeyScale(s, key) ==
    CASE key = "Plus"  -> RMul(s, <<6, 5>>)
      [] key = "Minus" -> RDiv(s, <<6, 5>>)
      [] OTHER -> s

\* Zoom levels explored: at most MaxZoom steps away from scale 1.
ZoomInRange(s) == s[1] <= Pow(6, MaxZoom) /\ s[2] <= Pow(6, MaxZoom)

\* ImageViewer.keyPressEvent: plus and minus change the scale and rescale
\* every ROI of the scene; any other key changes nothing.
KeyPress ==
    \E key \in {"Plus", "Minus", "Other"} :
        /\ ZoomInRange(KeyScale(scale, key))
        /\ scale' = KeyScale(scale, key)
        /\ IF key \in {"Plus", "Minus"}
              THEN /\ rois' = adjust_roi_scale(rois, scale')
                   /\ rescaled' = [r \in 1..Len(rois) |-> scale']
              ELSE UNCHANGED <<rois, rescaled>>
        /\ last' = Call(key, 0, 0, <<0, 0>>, NoPre)
        /\ nops' = nops + 1
        /\ UNCHANGED <<selected, sheet>>

\* The items that get selected: the ROIs and their first MaxPick anchors.
PickItems(rs) == { it \in ItemsOf(rs) : it.anchor <= MaxPick }

\* The scene's selection changes and selectionChanged runs
\* change_selected_item.
SelectionChanged ==
    \E S \in SubsetsUpTo(PickItems(rois), MaxSel) :
        /\ S # selected
        /\ selected' = S
        /\ rois' = change_selected_item(rois, S)
        /\ last' = Call("selectionChanged", 0, 0, <<0, 0>>, NoPre)
        /\ nops' = nops + 1
        /\ UNCHANGED <<scale, rescaled, sheet>>

Budget(n) == nops < n

\* Every call, on a scene of up to MaxRois ROIs.
Next ==
    \/ AddPoint
    \/ AddPath
    \/ AddRectangle
    \/ AddEllipse
    \/ Budget(MaxOps) /\ AdjustRoi
    \/ Budget(MaxOps) /\ SetProperties
    \/ Budget(MaxOps) /\ SetToScale
    \/ Budget(MaxOps) /\ KeyPress
    \/ Budget(MaxOps) /\ SelectionChanged

Spec == Init /\ [][Next]_vars

\* One ROI and the anchor drags on it.
GeomNext ==
    \/ Len(rois) = 0 /\ AddPoint
    \/ Len(rois) = 0 /\ AddPath
    \/ Len(rois) = 0 /\ AddRectangle
    \/ Len(rois) = 0 /\ AddEllipse
    \/ Budget(MaxDrags) /\ AdjustRoi

GeomSpec == Init /\ [][GeomNext]_vars

\* One ROI and every call on it.
RoiNext ==
    \/ Len(rois) = 0 /\ AddPoint
    \/ Len(rois) = 0 /\ AddPath
    \/ Len(rois) = 0 /\ AddRectangle
    \/ Len(rois) = 0 /\ AddEllipse
    \/ Budget(MaxOps) /\ AdjustRoi
    \/ Budget(MaxOps) /\ SetProperties
    \/ Budget(MaxOps) /\ SetToScale
    \/ Budget(MaxOps) /\ KeyPress
    \/ Budget(MaxOps) /\ SelectionChanged

RoiSpec == Init /\ [][RoiNext]_vars

\* The scene under add_roi and zoom keys alone.
SceneNext ==
    \/ AddPoint
    \/ AddPath
    \/ AddRectangle
    \/ AddEllipse
    \/ Budget(MaxOps) /\ KeyPress

SceneSpec == Init /\ [][SceneNext]_vars

---------------------------------------------------------------------------
(* PathRoi on any coordinate lists: empty lists, lists of different        *)
(* lengths, a single point, repeated points. An anchor whose index has no  *)
(* path element makes PathRoi.adjust_anchors read past the end of the      *)
(* path's elements; what it reads is any of Garbage, or the process dies.  *)

\* Longest coordinate list handed to PathRoi.
MaxLen == 3

Coords == {60, 65}

RECURSIVE SeqsUpTo(_, _)
SeqsUpTo(S, k) ==
    IF k = 0 THEN { <<>> }
    ELSE LET P == SeqsUpTo(S, k - 1)
         IN  P \cup { Append(p, c) : p \in P, c \in S }

CoordLists == SeqsUpTo(Coords, MaxLen)

\* Values a read past the last path element can return.
Garbage == { <<0, 0>>, <<7, -3>> }

\* path.elementAt(i), i counted from 1: the element, or junk when there is
\* no element i.
elementAt(path, i, junk) == IF i \in 1..Len(path) THEN path[i] ELSE junk

\* Every anchor of the ROI has a path element of its index.
HasElements(roi) == Len(roi.anchors) <= Len(roi.path)

\* The reads past the end that one adjust_anchors() call makes.
Junk(roi) == [(Len(roi.path) + 1)..Len(roi.anchors) -> Garbage]

\* PathRoi.adjust_anchors on any path ROI: anchor i goes to elementAt(i).
PathAdjustAnchors(roi, junk) ==
    [roi EXCEPT !.anchors =
        [i \in 1..Len(roi.anchors) |->
            [roi.anchors[i] EXCEPT
                !.pos = PathAnchorPos(<<elementAt(roi.path, i, junk[i])>>, 1, roi.anchors[i])]]]

\* The constructor call that produced the state, with its arguments.
Construct(op, r, x, y, is_closed, is_anchored) ==
    [x |-> x, y |-> y, is_closed |-> is_closed, is_anchored |-> is_anchored,
     roi |-> r, op |-> op]

Running == last.op # "crash"

\* PathRoi(x, y, is_closed, is_anchored) with an empty x or y: x[0] or y[0]
\* raises IndexError and no ROI comes out of the constructor.
CtorPathIndexError ==
    \E x \in CoordLists, y \in CoordLists, is_closed \in BOOLEAN, is_anchored \in BOOLEAN :
        /\ Running
        /\ Len(rois) = 0
        /\ Min(Len(x), Len(y)) = 0
        /\ last' = Construct("IndexError", 0, x, y, is_closed, is_anchored)
        /\ UNCHANGED <<rois, scale, selected, rescaled, nops, sheet>>

\* PathRoi(x, y, is_closed, is_anchored) returning an ROI.
CtorPath ==
    \E x \in CoordLists, y \in CoordLists, is_closed \in BOOLEAN, is_anchored \in BOOLEAN :
        /\ Running
        /\ Len(rois) = 0
        /\ Min(Len(x), Len(y)) > 0
        /\ LET roi == PathRoiSetPath(x, y, is_closed, is_anchored)
           IN  \E junk \in Junk(roi) :
                   rois' = <<PathAdjustAnchors(roi, junk)>>
        /\ rescaled' = <<RInt(1)>>
        /\ last' = Construct("PathRoi", 1, x, y, is_closed, is_anchored)
        /\ UNCHANGED <<scale, selected, nops, sheet>>

\* roi.adjust_anchors() called again on the constructed path.
CtorAdjustAnchors ==
    /\ Running
    /\ Len(rois) = 1
    /\ \E junk \in Junk(rois[1]) :
           rois' = <<PathAdjustAnchors(rois[1], junk)>>
    /\ last' = Call("adjust_anchors", 1, 0, <<0, 0>>, Geometry(rois[1]))
    /\ nops' = nops + 1
    /\ UNCHANGED <<scale, selected, rescaled, sheet>>

\* A read past the end of the path's elements kills the process, in the
\* constructor or in a later adjust_anchors().
CtorCrash ==
    /\ Running
    /\ \/ /\ Len(rois) = 0
          /\ \E x \in CoordLists, y \in CoordLists, is_closed \in BOOLEAN, is_anchored \in BOOLEAN :
                /\ Min(Len(x), Len(y)) > 0
                /\ ~HasElements(PathRoiSetPath(x, y, is_closed, is_anchored))
                /\ last' = Construct("crash", 0, x, y, is_closed, is_anchored)
       \/ /\ Len(rois) = 1
          /\ ~HasElements(rois[1])
          /\ last' = Call("crash", 1, 0, <<0, 0>>, Geometry(rois[1]))
    /\ UNCHANGED <<rois, scale, selected, rescaled, nops, sheet>>

\* Path construction on any coordinate lists.
CtorNext ==
    \/ CtorPathIndexError
    \/ CtorPath
    \/ Budget(MaxOps) /\ CtorAdjustAnchors
    \/ CtorCrash

CtorSpec == Init /\ [][CtorNext]_vars

---------------------------------------------------------------------------
(* Selection by a mouse press: SelectionRoi.mousePressEvent and            *)
(* distance_to_boundary, for rectangles. The boundary is the item's        *)
(* shape(): the outline of the rectangle stroked with the pen (an outer    *)
(* and an inner closed outline, half a pen width off the rectangle, taken  *)
(* with square corners) followed by the rectangle itself. Every outline    *)
(* starts at its top left corner and runs clockwise. Distances are kept    *)
(* squared.                                                                *)

\* The press is accepted below this distance to a sampled boundary point.
Tolerance == 4

\* The boundary is sampled at the fractions k / IncrementSteps of its length
\* (increment = 0.005).
IncrementSteps == 200

\* Positions along the top edge at which a press is tried.
MaxPos == 24

\* At most this many presses are followed.
MaxPress == 2

HitRects == { <<50, 10, 50, 40>>, <<0, 0, 400, 400>> }

RLess(a, b) == a[1] * b[2] < b[1] * a[2]

RAbs(a) == <<Abs(a[1]), a[2]>>

\* The closed outline of the rectangle x, y, w, h, as its corner points.
Outline(x, y, w, h) ==
    << <<x, y>>, <<RAdd(x, w), y>>, <<RAdd(x, w), RAdd(y, h)>>,
       <<x, RAdd(y, h)>>, <<x, y>> >>

\* QGraphicsRectItem.shape(): the subpaths of the boundary.
shape(roi) ==
    LET x  == RInt(roi.rect[1])
        y  == RInt(roi.rect[2])
        w  == RInt(roi.rect[3])
        h  == RInt(roi.rect[4])
        pw == roi.pen_width
        hp == RHalf(pw)
    IN  << Outline(RSub(x, hp), RSub(y, hp), RAdd(w, pw), RAdd(h, pw)),
           Outline(RAdd(x, hp), RAdd(y, hp), RSub(w, pw), RSub(h, pw)),
           Outline(x, y, w, h) >>

\* The line segments of a boundary, in path order.
Segments(boundary) ==
    [k \in 1..(4 * Len(boundary)) |->
        LET t == ((k - 1) \div 4) + 1
            j == ((k - 1) % 4) + 1
        IN  <<boundary[t][j], boundary[t][j + 1]>>]

SegLength(seg) ==
    RAdd(RAbs(RSub(seg[2][1], seg[1][1])), RAbs(RSub(seg[2][2], seg[1][2])))

RECURSIVE PathLength(_, _)
PathLength(segs, i) ==
    IF i > Len(segs) THEN RInt(0)
    ELSE RAdd(SegLength(segs[i]), PathLength(segs, i + 1))

\* The point at length d along the segments from segment i on.
RECURSIVE PointAtLength(_, _, _)
PointAtLength(segs, i, d) ==
    LET len == SegLength(segs[i])
        a   == segs[i][1]
        b   == segs[i][2]
        f   == RDiv(d, len)
    IN  IF i < Len(segs) /\ ~RLess(d, len) THEN PointAtLength(segs, i + 1, RSub(d, len))
        ELSE <<RAdd(a[1], RMul(f, RSub(b[1], a[1]))),
               RAdd(a[2], RMul(f, RSub(b[2], a[2])))>>

\* QPainterPath.pointAtPercent, on the segments of the path and their length.
pointAtPercent(segs, length, percent) ==
    PointAtLength(segs, 1, RMul(percent, length))

\* SelectionRoi.distance_to_path, squared.
distance_to_path(point, segs, length, percent) ==
    LET bp == pointAtPercent(segs, length, percent)
        dx == RSub(bp[1], RInt(point[1]))
        dy == RSub(bp[2], RInt(point[2]))
    IN  RAdd(RMul(dx, dx), RMul(dy, dy))

\* np.arange(0.0, 1.0, increment)
arange == { Rat(k, IncrementSteps) : k \in 0..(IncrementSteps - 1) }

\* SelectionRoi.distance_to_boundary, squared: the least distance to a sample.
distance_to_boundary(roi, point) ==
    LET segs   == Segments(shape(roi))
        length == PathLength(segs, 1)
        ds     == { distance_to_path(point, segs, length, p) : p \in arange \cup {RInt(0)} }
    IN  CHOOSE m \in ds : \A o \in ds : ~RLess(o, m)

\* SelectionRoi.mousePressEvent: "accept" or "ignore".
mousePressEvent(roi, point) ==
    IF RLess(distance_to_boundary(roi, point), RInt(Tolerance * Tolerance))
    THEN "accept" ELSE "ignore"

\* Presses in the item's coordinates: 3 inside the top edge, at the first
\* positions along it, and 20 inside the top left corner.
PressPoints(rect) ==
    { <<rect[1] + j, rect[2] + 3>> : j \in 0..Min(MaxPos, rect[3]) }
        \cup { <<rect[1] + 20, rect[2] + 20>> }

HitAddRectangle ==
    \E in \in HitRects : add_roi(RectangleRoi(in[1], in[2], in[3], in[4]))

MousePress ==
    \E r \in 1..Len(rois) : \E point \in PressPoints(rois[r].rect) :
        /\ last' = Call(mousePressEvent(rois[r], point), r, 0, point, Geometry(rois[r]))
        /\ nops' = nops + 1
        /\ UNCHANGED <<rois, scale, selected, rescaled, sheet>>

HitNext ==
    \/ Len(rois) = 0 /\ HitAddRectangle
    \/ Budget(MaxPress) /\ MousePress

HitSpec == Init /\ [][HitNext]_vars

---------------------------------------------------------------------------
(* adjust_roi called with an anchor of another ROI of the scene.           *)

\* adjust_roi(point, mouse) of the ROI's class, point being an anchor that is
\* not one of roi.anchors: a shape goes by point.position, an anchored path
\* finds no anchor equal to point and sets its path back unchanged, an
\* unanchored path moves. No class raises.
adjust_roi_foreign(roi, point, mouse) ==
    CASE roi.kind = "point" -> roi
      [] roi.kind = "path" ->
            IF ~roi.is_anchored
                THEN [roi EXCEPT !.pos = <<roi.pos[1] + mouse[1], roi.pos[2] + mouse[2]>>]
                ELSE adjust_anchors(roi)
      [] OTHER ->
            adjust_anchors(
                [roi EXCEPT !.rect = ShapeAdjustRect(roi.rect, point.position, mouse)])

AdjustRoiForeign ==
    \E r \in 1..Len(rois) : \E q \in 1..Len(rois) : \E i \in 1..Len(rois[q].anchors) :
    \E mouse \in Mouse :
        /\ q # r
        /\ rois' = [rois EXCEPT ![r] = adjust_roi_foreign(rois[r], rois[q].anchors[i], mouse)]
        /\ last' = Call("adjust_roi_foreign", r, i, mouse, Geometry(rois[r]))
        /\ nops' = nops + 1
        /\ UNCHANGED <<scale, selected, rescaled, sheet>>

ForeignNext ==
    \/ AddPoint
    \/ AddPath
    \/ AddRectangle
    \/ AddEllipse
    \/ Budget(MaxOps) /\ AdjustRoiForeign

ForeignSpec == Init /\ [][ForeignNext]_vars

---------------------------------------------------------------------------
(* Pointer events. The scene sends a press to the topmost item under the   *)
(* pointer, passing over items of opacity 0; an item that accepts the      *)
(* press grabs the pointer, and the moves and the release that follow go   *)
(* to it. The press points are the points of the anchors. An event is      *)
(* kept in last: its receiver (roi, anchor; roi = 0 when no item took it), *)
(* the pointer position in the scene and whether the handler left the      *)
(* event accepted.                                                         *)

\* At most this many pointer events are followed.
MaxEvents == 5

\* Where an anchor is pressed, from its top left corner.
PressOffsets == { <<0, 0>>, <<2, 2>> }

\* How far the pointer moves between two events.
Displacements == Mouse \cup { <<0, 0>> }

Event(op, r, i, mouse, pre, accepted) ==
    [roi |-> r, mouse |-> mouse, anchor |-> i, op |-> op, pre |-> pre,
     accepted |-> accepted]

\* The whole number held by a rational.
Whole(q) == q[1] \div q[2]

\* The scene position of the point at offset in the ROI's anchor i.
mapToScene(roi, i, offset) ==
    << RAdd(RAdd(RInt(roi.pos[1]), roi.anchors[i].pos[1]), RInt(offset[1])),
       RAdd(RAdd(RInt(roi.pos[2]), roi.anchors[i].pos[2]), RInt(offset[2])) >>

\* event.pos(): the scene position p in the coordinates of the ROI's anchor i.
mapFromScene(roi, i, p) ==
    << RSub(RSub(p[1], RInt(roi.pos[1])), roi.anchors[i].pos[1]),
       RSub(RSub(p[2], RInt(roi.pos[2])), roi.anchors[i].pos[2]) >>

\* The anchor's rectangle, grown by half its pen, holds the scene position p.
AnchorContains(roi, i, p) ==
    LET a  == roi.anchors[i]
        q  == mapFromScene(roi, i, p)
        hp == RHalf(a.pen_width)
    IN  /\ ~RLess(q[1], RSub(RInt(0), hp))
        /\ ~RLess(RAdd(a.width, hp), q[1])
        /\ ~RLess(q[2], RSub(RInt(0), hp))
        /\ ~RLess(RAdd(a.height, hp), q[2])

\* Variant of ReceivesEvents: an anchor takes pointer events whatever its opacity.
ReceivesEvents_always(a) == TRUE

\* show_anchors hides by opacity: the scene passes over an item of opacity 0.
ReceivesEvents(a) == a.opacity # 0

\* The anchors of the ROI that can take a press at p.
AnchorsAt(roi, p) ==
    { i \in 1..Len(roi.anchors) : ReceivesEvents(roi.anchors[i]) /\ AnchorContains(roi, i, p) }

\* The topmost of them: the anchor added last.
Topmost(S) == CHOOSE i \in S : \A j \in S : j <= i

\* The item that holds the pointer since its press.
Grabber(r, i) ==
    /\ last.op \in {"mousePress", "mouseMove"}
    /\ last.roi = r
    /\ last.anchor = i

NoGrabber == last.op \notin {"mousePress", "mouseMove"} \/ last.roi = 0

PressScenePoints(roi) ==
    { mapToScene(roi, i, offset) : i \in 1..Len(roi.anchors), offset \in PressOffsets }

\* A press on an anchor, at a point of which it is the topmost item:
\* QGraphicsItem.mousePressEvent of a selectable item selects the anchor alone
\* and accepts; selectionChanged runs change_selected_item.
MousePressAnchor ==
    \E r \in 1..Len(rois) : \E i \in 1..Len(rois[r].anchors) : \E offset \in PressOffsets :
        /\ NoGrabber
        /\ AnchorsAt(rois[r], mapToScene(rois[r], i, offset)) # {}
        /\ Topmost(AnchorsAt(rois[r], mapToScene(rois[r], i, offset))) = i
        /\ selected' = { Item(r, i) }
        /\ rois' = change_selected_item(rois, selected')
        /\ last' = Event("mousePress", r, i, mapToScene(rois[r], i, offset),
                         Geometry(rois[r]), TRUE)
        /\ nops' = nops + 1
        /\ UNCHANGED <<scale, rescaled, sheet>>

\* A press at a point where no anchor takes it goes to the ROI, whose
\* mousePressEvent accepts or ignores it; ignored, no item has the press and
\* the scene clears its selection.
MousePressBelow ==
    \E r \in 1..Len(rois) : \E p \in PressScenePoints(rois[r]) : \E accepted \in BOOLEAN :
        /\ NoGrabber
        /\ AnchorsAt(rois[r], p) = {}
        /\ selected' = IF accepted THEN selected ELSE {}
        /\ rois' = IF accepted THEN rois ELSE change_selected_item(rois, {})
        /\ last' = Event("mousePress", IF accepted THEN r ELSE 0, 0, p,
                         Geometry(rois[r]), accepted)
        /\ nops' = nops + 1
        /\ UNCHANGED <<scale, rescaled, sheet>>

\* Anchor.mouseMoveEvent: self.roi.adjust_roi(self, event.pos()), then
\* event.ignore().
MouseMoveAnchor ==
    \E r \in 1..Len(rois) : \E i \in 1..Len(rois[r].anchors) : \E d \in Displacements :
        LET p   == <<RAdd(last.mouse[1], RInt(d[1])), RAdd(last.mouse[2], RInt(d[2]))>>
            pos == mapFromScene(rois[r], i, p)
        IN  /\ Grabber(r, i)
            /\ rois' = [rois EXCEPT ![r] = adjust_roi(rois[r], i, <<Whole(pos[1]), Whole(pos[2])>>)]
            /\ last' = Event("mouseMove", r, i, p, Geometry(rois[r]), FALSE)
            /\ nops' = nops + 1
            /\ UNCHANGED <<scale, selected, rescaled, sheet>>

\* QGraphicsItem.mouseMoveEvent of the ROI, a movable item: the ROI moves with
\* the pointer.
MouseMoveRoi ==
    \E r \in 1..Len(rois) : \E d \in Displacements :
        /\ Grabber(r, 0)
        /\ rois' = [rois EXCEPT ![r].pos = <<rois[r].pos[1] + d[1], rois[r].pos[2] + d[2]>>]
        /\ last' = Event("mouseMove", r, 0,
                         <<RAdd(last.mouse[1], RInt(d[1])), RAdd(last.mouse[2], RInt(d[2]))>>,
                         Geometry(rois[r]), TRUE)
        /\ nops' = nops + 1
        /\ UNCHANGED <<scale, selected, rescaled, sheet>>

\* QGraphicsItem.mouseReleaseEvent of a selectable item: released where it was
\* pressed, the item is selected alone.
MouseRelease ==
    \E r \in 1..Len(rois) : \E i \in 0..Len(rois[r].anchors) :
        /\ Grabber(r, i)
        /\ selected' = IF last.op = "mousePress" THEN { Item(r, i) } ELSE selected
        /\ rois' = IF selected' # selected THEN change_selected_item(rois, selected') ELSE rois
        /\ last' = Event("mouseRelease", r, i, last.mouse, Geometry(rois[r]), TRUE)
        /\ nops' = nops + 1
        /\ UNCHANGED <<scale, rescaled, sheet>>

\* One ROI and the pointer events on it.
PointerNext ==
    \/ Len(rois) = 0 /\ AddPoint
    \/ Len(rois) = 0 /\ AddPath
    \/ Len(rois) = 0 /\ AddRectangle
    \/ Len(rois) = 0 /\ AddEllipse
    \/ Budget(MaxEvents) /\ MousePressAnchor
    \/ Budget(MaxEvents) /\ MousePressBelow
    \/ Budget(MaxEvents) /\ MouseMoveAnchor
    \/ Budget(MaxEvents) /\ MouseMoveRoi
    \/ Budget(MaxEvents) /\ MouseRelease

PointerSpec == Init /\ [][PointerNext]_vars

---------------------------------------------------------------------------
(* LineRoi of image_viewer5.py: a line item with START, MIDDLE and END     *)
(* anchors. Its line() is kept as the two elements of path, in the item's  *)
(* coordinates; its anchors are not hidden at construction.                *)

PlusVector(p, v) == <<p[1] + v[1], p[2] + v[2]>>

LineInputs == { <<60, 60, 65, 76>>, <<30, 40, 20, 40>> }

\* LineRoi.get_anchor_types
LineAnchorTypes == <<"START", "MIDDLE", "END">>

\* SelectionRoi.__init__ of image_viewer5.py for a LineRoi.
LineRoiInit ==
    [SelectionRoiInit("path", 2, FALSE, FALSE) EXCEPT
        !.kind = "line",
        !.anchors = [i \in 1..Len(LineAnchorTypes) |-> Anchor(LineAnchorTypes[i])]]

\* LineRoi.adjust_anchors: the position of one anchor on the line.
LineAnchorPos(line, a) ==
    LET off == AnchorOff(a)
        x1  == RInt(line[1][1])
        y1  == RInt(line[1][2])
        x2  == RInt(line[2][1])
        y2  == RInt(line[2][2])
    IN  CASE a.position = "START"  -> <<RSub(x1, off), RSub(y1, off)>>
          [] a.position = "MIDDLE" -> <<RSub(RAdd(x1, RHalf(RSub(x2, x1))), off),
                                        RSub(RAdd(y1, RHalf(RSub(y2, y1))), off)>>
          [] a.position = "END"    -> <<RSub(x2, off), RSub(y2, off)>>
          [] OTHER -> a.pos

\* LineRoi.adjust_anchors
LineAdjustAnchors(roi) ==
    [roi EXCEPT !.anchors =
        [i \in 1..Len(roi.anchors) |->
            [roi.anchors[i] EXCEPT !.pos = LineAnchorPos(roi.path, roi.anchors[i])]]]

\* LineRoi.adjust_roi(point, mouse), point being the ROI's i-th anchor.
LineAdjustRoi(roi, i, mouse) ==
    LET line == roi.path
        position == roi.anchors[i].position
    IN  LineAdjustAnchors(
            CASE position = "START" ->
                    [roi EXCEPT !.path = <<PlusVector(line[1], mouse), line[2]>>]
              [] position = "MIDDLE" ->
                    [roi EXCEPT !.pos = PlusVector(roi.pos, mouse)]
              [] position = "END" ->
                    [roi EXCEPT !.path = <<line[1], PlusVector(line[2], mouse)>>]
              [] OTHER -> roi)

\* LineRoi(x0, y0, x1, y1)
LineRoi(x0, y0, x1, y1) ==
    LineAdjustAnchors([LineRoiInit EXCEPT !.path = << <<x0, y0>>, <<x1, y1>> >>])

AddLine == \E in \in LineInputs : add_roi(LineRoi(in[1], in[2], in[3], in[4]))

\* Anchor.mouseMoveEvent on a line's anchor.
AdjustLine ==
    \E r \in 1..Len(rois) : \E i \in 1..Len(rois[r].anchors) : \E mouse \in Mouse :
        /\ rois' = [rois EXCEPT ![r] = LineAdjustRoi(rois[r], i, mouse)]
        /\ last' = Call("adjust_roi", r, i, mouse, Geometry(rois[r]))
        /\ nops' = nops + 1
        /\ UNCHANGED <<scale, selected, rescaled, sheet>>

\* One line and the anchor drags on it.
LineNext ==
    \/ Len(rois) = 0 /\ AddLine
    \/ Budget(MaxDrags) /\ AdjustLine

LineSpec == Init /\ [][LineNext]_vars

---------------------------------------------------------------------------
(* Presses on a rectangle that has been set to a scale.                    *)

ZoomHitNext ==
    \/ Len(rois) = 0 /\ add_roi(RectangleRoi(50, 10, 50, 40))
    \/ Budget(MaxPress) /\ SetToScale
    \/ Budget(MaxPress) /\ MousePress

ZoomHitSpec == Init /\ [][ZoomHitNext]_vars

---------------------------------------------------------------------------
(* The table viewer: the row menu's items on a sheet of up to MaxRows rows. *)

\* Rows of a table.
MaxRows == 3

\* Calls made on the sheet in a run of SheetSpec.
MaxSheetOps == 4

\* The row menu's item for a row type.
RowMenu(rtype) ==
    CASE rtype = "DATA" -> "Rows to Data"
      [] rtype = "HEADER" -> "Row to Header"
      [] rtype = "OTHER" -> "Row to Other"

SheetCall(sh, op) ==
    /\ sheet' = sh
    /\ last' = Call(op, 0, 0, <<0, 0>>, NoPre)
    /\ nops' = nops + 1
    /\ UNCHANGED <<rois, scale, selected, rescaled>>

\* set_row_data(rows) with a non-empty list of rows.
SetRowData == \E n_row \in 1..MaxRows : SheetCall(set_row_data(sheet, n_row), "set_row_data")

\* The user selects rows, or clears the selection.
SelectRows ==
    \E S \in SUBSET (0..(sheet.rowCount - 1)) :
        /\ S # sheet.selection
        /\ SheetCall([sheet EXCEPT !.selection = S], "select")

\* 'Insert Row'.
InsertSegment ==
    /\ sheet.rowCount < MaxRows
    /\ SheetCall(insert_segment(sheet), "Insert Row")

\* 'Delete Row'.
DeleteSegment ==
    LET done == delete_segment(sheet)
    IN  SheetCall(done.sheet, IF done.raised THEN "IndexError" ELSE "Delete Row")

\* 'Rows to Data', 'Row to Header', 'Row to Other'.
SetSelectedRowType ==
    \E rtype \in RowType : SheetCall(set_selected_row_type(sheet, rtype), RowMenu(rtype))

SheetNext ==
    \/ Budget(MaxSheetOps) /\ SetRowData
    \/ Budget(MaxSheetOps) /\ SelectRows
    \/ Budget(MaxSheetOps) /\ InsertSegment
    \/ Budget(MaxSheetOps) /\ DeleteSegment
    \/ Budget(MaxSheetOps) /\ SetSelectedRowType

SheetSpec == Init /\ [][SheetNext]_vars

---------------------------------------------------------------------------
(* Properties.                                                             *)

IsShape(roi) == roi.kind \in {"rectangle", "ellipse"}

\* The ROI the last call was made on, when it was adjust_roi.
Adjusted == last.op = "adjust_roi"

PlusMouse(p, mouse) == <<p[1] + mouse[1], p[2] + mouse[2]>>

\* C1: after adjust_roi on a rectangle or an ellipse, whatever the anchor and
\* the deltas, the rect has left <= right and top <= bottom (width >= 0 and
\* height >= 0).
C1_BoxNormalized ==
    (Adjusted /\ IsShape(rois[last.roi])) =>
        LET rect == rois[last.roi].rect
        IN  /\ left(rect) <= right(rect)
            /\ top(rect) <= bottom(rect)
            /\ rect[3] >= 0
            /\ rect[4] >= 0

\* A third drag has just carried the left edge of a rect of non-negative width
\* past its right edge.
C1_Witness ==
    /\ Adjusted
    /\ nops >= 3
    /\ IsShape(rois[last.roi])
    /\ rois[last.roi].anchors[last.anchor].position \in {"LEFT", "TOP_LEFT", "BOTTOM_LEFT"}
    /\ last.pre.rect[3] >= 0
    /\ last.mouse[1] > last.pre.rect[3]

\* C2: in every state, every anchor is where adjust_anchors puts it for the
\* ROI's current geometry, pen and anchor size.
C2_AnchorsFresh ==
    \A r \in 1..Len(rois) :
        \A i \in 1..Len(rois[r].anchors) :
            rois[r].anchors[i].pos = adjust_anchors(rois[r]).anchors[i].pos

\* A dragged ROI has just been rescaled, and its anchors are no longer of the
\* size they were constructed with.
C2_Witness ==
    /\ last.op = "set_to_scale"
    /\ nops >= 2
    /\ Len(rois[last.roi].anchors) > 0
    /\ rois[last.roi].anchors[1].width # RInt(4)
    /\ \/ IsShape(rois[last.roi]) /\ rois[last.roi].rect \notin RectInputs \cup EllipseInputs
       \/ rois[last.roi].kind = "path" /\ rois[last.roi].path[1] \notin { <<10, 10>>, <<60, 60>>, <<4, 46>> }

\* C3: in every state, the kinds of an ROI's anchors, in order, are its
\* get_anchor_types(): the anchor list made at construction is never added
\* to, cut or reordered.
C3_AnchorSet ==
    \A r \in 1..Len(rois) :
        [i \in 1..Len(rois[r].anchors) |-> rois[r].anchors[i].position]
            = get_anchor_types(rois[r].kind, rois[r].n_points, rois[r].is_anchored)

\* A closed anchored path of three points (four elements, three anchors) has
\* been dragged, next to a second ROI.
C3_Witness ==
    /\ Len(rois) = 2
    /\ Adjusted
    /\ nops >= 2
    /\ rois[last.roi].kind = "path"
    /\ rois[last.roi].is_closed
    /\ Len(rois[last.roi].path) = 4
    /\ Len(rois[last.roi].anchors) = 3

\* C4: right after set_to_scale(s), s in {0.5, 1, 2, 10}, the pen width times
\* s is the base line width and every anchor's width and height times s are
\* the base anchor size.
C4_ScaleInvariance ==
    last.op = "set_to_scale" =>
        LET roi == rois[last.roi]
            s   == rescaled[last.roi]
        IN  /\ s \in Scales
            /\ RMul(roi.pen_width, s) = RInt(roi.base_line_width)
            /\ \A i \in 1..Len(roi.anchors) :
                /\ RMul(roi.anchors[i].width, s) = RInt(roi.base_anchor_size)
                /\ RMul(roi.anchors[i].height, s) = RInt(roi.base_anchor_size)

\* An ROI styled with line width 6 has just been set to scale 10.
C4_Witness ==
    /\ last.op = "set_to_scale"
    /\ rescaled[last.roi] = <<10, 1>>
    /\ rois[last.roi].base_line_width = 6
    /\ rois[last.roi].pen_width = <<3, 5>>
    /\ Len(rois[last.roi].anchors) > 0

\* C5: in every state, an ROI is rendered at the scale of the latest
\* set_to_scale call made on it (1 if none): pen width = base line width / s
\* and anchor size = base anchor size / s, also after set_properties.
C5_StyleKeepsScale ==
    \A r \in 1..Len(rois) :
        /\ RMul(rois[r].pen_width, rescaled[r]) = RInt(rois[r].base_line_width)
        /\ \A i \in 1..Len(rois[r].anchors) :
            /\ RMul(rois[r].anchors[i].width, rescaled[r]) = RInt(rois[r].base_anchor_size)
            /\ RMul(rois[r].anchors[i].height, rescaled[r]) = RInt(rois[r].base_anchor_size)

\* C6: under add_roi and zoom keys, every ROI of the scene is rendered at the
\* viewer's scale: pen width = base line width / scale and anchor size = base
\* anchor size / scale, also for an ROI added after the latest zoom.
C6_SceneAtViewScale ==
    \A r \in 1..Len(rois) :
        /\ RMul(rois[r].pen_width, scale) = RInt(rois[r].base_line_width)
        /\ \A i \in 1..Len(rois[r].anchors) :
            /\ RMul(rois[r].anchors[i].width, scale) = RInt(rois[r].base_anchor_size)
            /\ RMul(rois[r].anchors[i].height, scale) = RInt(rois[r].base_anchor_size)

\* C7: in every state, the anchors of an ROI are visible exactly when a
\* selected item is the ROI or one of its anchors; with nothing selected, and
\* before any selection, every anchor is hidden.
C7_AnchorsFollowSelection ==
    \A r \in 1..Len(rois) :
        \A i \in 1..Len(rois[r].anchors) :
            /\ rois[r].anchors[i].opacity \in {0, 1}
            /\ rois[r].anchors[i].opacity = 1 <=> \E y \in selected : y.roi = r

\* After a second selection event an anchor of the second ROI is selected and
\* nothing of the first: the second shows its anchors, the first hides them.
C7_Witness ==
    /\ last.op = "selectionChanged"
    /\ nops >= 2
    /\ Len(rois) = 2
    /\ Len(rois[1].anchors) > 0
    /\ Len(rois[2].anchors) > 0
    /\ \E y \in selected : y.roi = 2 /\ y.anchor >= 1
    /\ \A y \in selected : y.roi = 2
    /\ rois[2].anchors[1].opacity = 1
    /\ rois[1].anchors[1].opacity = 0

\* C8: after adjust_roi with the START anchor on a closed anchored path,
\* element 0 and the last element have both moved by exactly the deltas and
\* every other element is where it was.
C8_StartMovesBothEnds ==
    (/\ Adjusted
     /\ rois[last.roi].kind = "path"
     /\ rois[last.roi].is_anchored
     /\ rois[last.roi].is_closed
     /\ last.anchor = 1) =>
        LET p == rois[last.roi].path
            q == last.pre.path
        IN  /\ Len(p) = Len(q)
            /\ p[1] = PlusMouse(q[1], last.mouse)
            /\ p[Len(q)] = PlusMouse(q[Len(q)], last.mouse)
            /\ \A j \in 2..(Len(q) - 1) : p[j] = q[j]

C10_EllipseAnchors ==
    \A r \in 1..Len(rois) :
        rois[r].kind = "ellipse" =>
            /\ get_anchor_types("ellipse", rois[r].n_points, rois[r].is_anchored)
                  = <<"LEFT", "RIGHT", "TOP", "BOTTOM">>
            /\ [i \in 1..Len(rois[r].anchors) |-> rois[r].anchors[i].position]
                  = <<"LEFT", "RIGHT", "TOP", "BOTTOM">>

\* C11: a path constructed with is_anchored = False has no anchors at all,
\* and its get_anchor_types() is empty, whatever its points and is_closed.
C11_UnanchoredNoAnchors ==
    \A r \in 1..Len(rois) :
        (rois[r].kind = "path" /\ ~rois[r].is_anchored) =>
            /\ get_anchor_types("path", rois[r].n_points, FALSE) = <<>>
            /\ Len(rois[r].anchors) = 0

\* The anchor kinds of an anchored path of n >= 2 vertices.
PathKinds(n) == <<"START">> \o [i \in 1..(n - 2) |-> "MIDDLE"] \o <<"END">>

\* C12: an anchored path constructed from n >= 1 coordinate pairs has exactly
\* n anchors (START, n - 2 times MIDDLE, END), every anchor has a path
\* element of its index, and anchor i is at vertex i minus half the anchor
\* size.
C12_AnchorPerVertex ==
    (last.op = "PathRoi" /\ last.is_anchored) =>
        LET n   == Min(Len(last.x), Len(last.y))
            roi == rois[last.roi]
        IN  /\ Len(roi.anchors) = n
            /\ n >= 2 => [i \in 1..n |-> roi.anchors[i].position] = PathKinds(n)
            /\ \A i \in 1..Len(roi.anchors) :
                /\ i <= Len(roi.path)
                /\ i <= n
                /\ roi.anchors[i].pos =
                      << RSub(RInt(last.x[i]), RHalf(roi.anchors[i].width)),
                         RSub(RInt(last.y[i]), RHalf(roi.anchors[i].width)) >>

\* C13: after adjust_roi with the TOP_LEFT anchor on a rectangle of rect
\* (x, y, w, h) and deltas dx <= w, dy <= h, the rect is
\* (x + dx, y + dy, w - dx, h - dy): the right and bottom edges stay.
C13_TopLeftDrag ==
    (/\ Adjusted
     /\ rois[last.roi].kind = "rectangle"
     /\ rois[last.roi].anchors[last.anchor].position = "TOP_LEFT"
     /\ last.mouse[1] <= last.pre.rect[3]
     /\ last.mouse[2] <= last.pre.rect[4]) =>
        LET q    == last.pre.rect
            rect == rois[last.roi].rect
        IN  /\ rect = <<q[1] + last.mouse[1], q[2] + last.mouse[2],
                        q[3] - last.mouse[1], q[4] - last.mouse[2]>>
            /\ right(rect) = right(q)
            /\ bottom(rect) = bottom(q)

\* RectangleRoi(50, 10, 50, 40) has had its TOP_LEFT anchor dragged by (5, 5)
\* and is at (55, 15, 45, 35).
C13_Witness ==
    /\ Adjusted
    /\ rois[last.roi].kind = "rectangle"
    /\ rois[last.roi].anchors[last.anchor].position = "TOP_LEFT"
    /\ last.pre.rect = <<50, 10, 50, 40>>
    /\ last.mouse = <<5, 5>>
    /\ rois[last.roi].rect = <<55, 15, 45, 35>>

C15_HitTest ==
    last.op \in {"accept", "ignore"} =>
        LET rect == last.pre.rect
            dx   == last.mouse[1] - rect[1]
            dy   == last.mouse[2] - rect[2]
        IN  /\ (dy = 3 /\ dx >= 3 /\ dx <= rect[3] - 3 /\ rect[4] >= 6)
                    => last.op = "accept"
            /\ (dy = 20 /\ dx = 20 /\ rect[3] >= 40 /\ rect[4] >= 40)
                    => last.op = "ignore"

\* C16: adjust_roi with an anchor of another ROI raises an error and leaves
\* the ROI, its geometry and its anchors, as it was.
C16_ForeignAnchorFailsFast ==
    [][AdjustRoiForeign =>
        /\ last'.op = "ForeignAnchorError"
        /\ rois' = rois]_vars

PointerStep ==
    \/ MousePressAnchor
    \/ MousePressBelow
    \/ MouseMoveAnchor
    \/ MouseMoveRoi
    \/ MouseRelease

Hidden(roi) == \A i \in 1..Len(roi.anchors) : roi.anchors[i].opacity = 0

C18_DragDelta ==
    [][\A r \in 1..Len(rois) : \A i \in 1..Len(rois[r].anchors) :
        (MouseMoveAnchor /\ Grabber(r, i)) =>
            LET dx == Whole(RSub(last'.mouse[1], last.mouse[1]))
                dy == Whole(RSub(last'.mouse[2], last.mouse[2]))
            IN  /\ rois'[r] = adjust_roi(rois[r], i, <<dx, dy>>)
                /\ (dx = 0 /\ dy = 0) => Geometry(rois'[r]) = Geometry(rois[r])]_vars

\* C19: the drag-move event that an anchor has handled is left accepted.
C19_DragMoveConsumed ==
    [][MouseMoveAnchor => last'.accepted]_vars

\* C20: a path built from the lists x and y has the first
\* n = min(len(x), len(y)) pairs as its vertices, in order and nothing else
\* but the closing element of a closed path; with n = 0 the constructor
\* raises and no ROI is made.
C20_PathVertices ==
    /\ last.op = "PathRoi" =>
            LET n    == Min(Len(last.x), Len(last.y))
                path == rois[last.roi].path
            IN  /\ n > 0
                /\ Len(path) \in {n, n + 1}
                /\ Len(path) = n + 1 => last.is_closed
                /\ \A i \in 1..n : path[i] = <<last.x[i], last.y[i]>>
    /\ last.op \in {"IndexError", "crash"} /\ last.roi = 0 =>
            /\ Len(rois) = 0
            /\ Min(Len(last.x), Len(last.y)) = 0 <=> last.op = "IndexError"

\* The ends of a line in the scene: its line() moved by the item's position.
LineEnds(pos, line) == <<PlusMouse(line[1], pos), PlusMouse(line[2], pos)>>

\* C21: on a line, a START drag moves the first end by the mouse vector and
\* leaves the second, an END drag moves the second and leaves the first, a
\* MIDDLE drag moves both; afterwards the START, MIDDLE and END anchors are
\* at the first end, the midpoint and the second end, each less half the
\* anchor's size.
C21_LinePolicy ==
    (Adjusted /\ rois[last.roi].kind = "line") =>
        LET roi  == rois[last.roi]
            was  == LineEnds(last.pre.pos, last.pre.path)
            now  == LineEnds(roi.pos, roi.path)
            kind == roi.anchors[last.anchor].position
            x1   == RInt(roi.path[1][1])
            y1   == RInt(roi.path[1][2])
            x2   == RInt(roi.path[2][1])
            y2   == RInt(roi.path[2][2])
        IN  /\ kind = "START" => now = <<PlusMouse(was[1], last.mouse), was[2]>>
            /\ kind = "END" => now = <<was[1], PlusMouse(was[2], last.mouse)>>
            /\ kind = "MIDDLE" =>
                    now = <<PlusMouse(was[1], last.mouse), PlusMouse(was[2], last.mouse)>>
            /\ \A i \in 1..Len(roi.anchors) :
                LET a    == roi.anchors[i]
                    half == RHalf(a.width)
                IN  /\ a.position = "START" => a.pos = <<RSub(x1, half), RSub(y1, half)>>
                    /\ a.position = "END" => a.pos = <<RSub(x2, half), RSub(y2, half)>>
                    /\ a.position = "MIDDLE" =>
                            a.pos = <<RSub(RHalf(RAdd(x1, x2)), half),
                                      RSub(RHalf(RAdd(y1, y2)), half)>>

LeftKinds == {"LEFT", "TOP_LEFT", "BOTTOM_LEFT"}

RightKinds == {"RIGHT", "TOP_RIGHT", "BOTTOM_RIGHT"}

TopKinds == {"TOP", "TOP_LEFT", "TOP_RIGHT"}

BottomKinds == {"BOTTOM", "BOTTOM_LEFT", "BOTTOM_RIGHT"}

XEdges(r) == {left(r), right(r)}

YEdges(r) == {top(r), bottom(r)}

\* C23: a drag on a rectangle or an ellipse changes the edges its anchor
\* names and no other: LEFT and RIGHT leave top and bottom, whatever dy, TOP
\* and BOTTOM leave left and right, whatever dx, and a corner leaves the two
\* opposite edges; the edges named go by dx or dy. Edges are compared up to
\* the swap of normalization, and exactly on the sides the anchor does not
\* name when the rect was normalized before.
C23_OnlyNamedEdges ==
    (Adjusted /\ IsShape(rois[last.roi])) =>
        LET q    == last.pre.rect
            rect == rois[last.roi].rect
            kind == rois[last.roi].anchors[last.anchor].position
            dx   == last.mouse[1]
            dy   == last.mouse[2]
        IN  /\ XEdges(rect) =
                    IF kind \in LeftKinds THEN {left(q) + dx, right(q)}
                    ELSE IF kind \in RightKinds THEN {left(q), right(q) + dx}
                    ELSE XEdges(q)
            /\ YEdges(rect) =
                    IF kind \in TopKinds THEN {top(q) + dy, bottom(q)}
                    ELSE IF kind \in BottomKinds THEN {top(q), bottom(q) + dy}
                    ELSE YEdges(q)
            /\ (kind \in {"TOP", "BOTTOM"} /\ q[3] >= 0) =>
                    left(rect) = left(q) /\ right(rect) = right(q)
            /\ (kind \in {"LEFT", "RIGHT"} /\ q[4] >= 0) =>
                    top(rect) = top(q) /\ bottom(rect) = bottom(q)

\* A RIGHT anchor has been dragged by a vector with dy # 0 and the top and
\* the bottom are where they were.
C23_Witness ==
    /\ Adjusted
    /\ rois[last.roi].kind = "rectangle"
    /\ rois[last.roi].anchors[last.anchor].position = "RIGHT"
    /\ last.mouse[2] # 0
    /\ last.pre.rect[4] >= 0
    /\ right(rois[last.roi].rect) = right(last.pre.rect) + last.mouse[1]
    /\ top(rois[last.roi].rect) = top(last.pre.rect)
    /\ bottom(rois[last.roi].rect) = bottom(last.pre.rect)

\* Where an anchor of a box is when it is centred on the corner or the edge
\* midpoint of rect that its kind names: that point less half its size.
CentredOn(rect, a) ==
    LET e == Edges(<<RInt(rect[1]), RInt(rect[2]), RInt(rect[3]), RInt(rect[4])>>)
        x == IF a.position \in LeftKinds THEN e.left
             ELSE IF a.position \in RightKinds THEN e.right ELSE e.cx
        y == IF a.position \in TopKinds THEN e.top
             ELSE IF a.position \in BottomKinds THEN e.bottom ELSE e.cy
    IN  <<RSub(x, RHalf(a.width)), RSub(y, RHalf(a.height))>>

\* C24: on a rectangle or an ellipse of non-negative size every anchor is
\* centred on the corner or the edge midpoint of the rect that it names,
\* whatever the stroke width and the anchor size.
C24_AnchorsCentred ==
    \A r \in 1..Len(rois) :
        (IsShape(rois[r]) /\ rois[r].rect[3] >= 0 /\ rois[r].rect[4] >= 0) =>
            \A i \in 1..Len(rois[r].anchors) :
                rois[r].anchors[i].pos = CentredOn(rois[r].rect, rois[r].anchors[i])

Min4(a, b, c, d) == Min(Min(a, b), Min(c, d))

\* The distance from a point inside a rect of positive size to its nearest
\* edge.
InnerDistance(rect, point) ==
    Min4(point[1] - left(rect), right(rect) - point[1],
         point[2] - top(rect), bottom(rect) - point[2])

\* C25: at scale s a press is accepted only when it is less than 4 / s from
\* the boundary of the rectangle.
C25_ToleranceInScreenPixels ==
    last.op = "accept" =>
        RLess(RMul(RInt(InnerDistance(last.pre.rect, last.mouse)), rescaled[last.roi]),
              RInt(Tolerance))

RoiOps == {"adjust_roi", "set_properties", "set_to_scale"}

\* The ROIs that hold the item.
Owners(item) == { q \in 1..Len(rois) : has_item(rois, q, item) }

\* C26: adjust_roi, set_properties and set_to_scale on one ROI leave every
\* other ROI as it was, and every anchor is an item of exactly one ROI.
C26_RoisIsolated ==
    [][ /\ last'.op \in RoiOps =>
            \A q \in 1..Len(rois) : q # last'.roi => rois'[q] = rois[q]
        /\ \A item \in ItemsOf(rois') :
            { q \in 1..Len(rois') : has_item(rois', q, item) } = {item.roi} ]_vars

C26_Witness ==
    /\ Len(rois) = 2
    /\ last.op = "adjust_roi"
    /\ Geometry(rois[last.roi]) # last.pre
    /\ \A item \in ItemsOf(rois) : Owners(item) = {item.roi}
    /\ \E item \in ItemsOf(rois) : item.roi # last.roi /\ item.anchor > 0

\* C27: the last element of a closed anchored path equals its element 0,
\* whatever anchors have been dragged.
C27_ClosedPathStaysClosed ==
    \A r \in 1..Len(rois) :
        (rois[r].kind = "path" /\ rois[r].is_closed /\ rois[r].is_anchored) =>
            rois[r].path[Len(rois[r].path)] = rois[r].path[1]

Opposite(mouse) == <<-mouse[1], -mouse[2]>>

\* C28: adjust_roi on a rectangle or an ellipse with an anchor and a vector,
\* followed by adjust_roi with the same anchor and the opposite vector, leaves
\* the rect as it was before the first of the two.
C28_DragReversible ==
    [][ (/\ Adjusted
         /\ last'.op = "adjust_roi"
         /\ last'.roi = last.roi
         /\ last'.anchor = last.anchor
         /\ last'.mouse = Opposite(last.mouse)
         /\ IsShape(rois[last.roi])) =>
            rois'[last.roi].rect = last.pre.rect ]_vars

\* The rows from the first to the last selected row of the sheet.
SelectedRange(sh) ==
    { i \in 0..(sh.rowCount - 1) :
        /\ \E b \in sh.selection : b <= i
        /\ \E b \in sh.selection : b >= i }

\* C29: after set_selected_row_type(rtype) with rows selected, every row of
\* the selected range has the type rtype and its colour; with no selection
\* the row types are as they were.
C29_SelectedRowsTakeType ==
    [][ \A rtype \in RowType :
            last'.op = RowMenu(rtype) =>
                IF sheet.selection # {}
                    THEN \A i \in SelectedRange(sheet) :
                            /\ row_type(sheet', i) = rtype
                            /\ sheet'.colors[i + 1] \in {rtype, "none"}
                    ELSE sheet'.row_type_list = sheet.row_type_list ]_vars

\* The row types of the sheet are consistent: row_type_list indexes existing
\* rows only and holds no DATA, and the rows with the DATA colour are the rows
\* from index Len(row_type_list) on.
RowTypesConsistent(sh) ==
    /\ Len(sh.row_type_list) <= sh.rowCount
    /\ \A i \in 1..Len(sh.row_type_list) : sh.row_type_list[i] # "DATA"
    /\ \A i \in 0..(sh.rowCount - 1) :
            sh.colors[i + 1] # "none" =>
                (sh.colors[i + 1] = "DATA" <=> i >= Len(sh.row_type_list))

\* C30: after any calls of set_row_data, insert_segment, delete_segment and
\* set_selected_row_type the row types are consistent, and inserting or
\* deleting with no selection changes neither the rows nor row_type_list.
C30_RowTypeListConsistent ==
    [][ /\ RowTypesConsistent(sheet')
        /\ (last'.op \in {"Insert Row", "Delete Row", "IndexError"} /\ sheet.selection = {}) =>
                /\ sheet'.rowCount = sheet.rowCount
                /\ sheet'.row_type_list = sheet.row_type_list ]_vars

====
